---- MODULE Spec2Model ----
(***************************************************************************)
(* MedLink server: the connection request/accept/reject handlers, the post *)
(* like toggle, the post, saved-post, comment, document, sharing, profile   *)
(* and signup handlers of server/routes.ts, over the tables of             *)
(* server/db/schema.ts as                                                  *)
(* read and written by DrizzleStorage (server/storage.ts).  Every await of *)
(* a handler is one step, so that requests handled by different handlers   *)
(* interleave between their store calls.                                   *)
(***************************************************************************)
EXTENDS Integers, Sequences, FiniteSets, TLC

\* ---------------------------------------------------------------- bounds
NumUsers == 3      \* rows of the users table: ids 1..NumUsers
MaxConns == 2      \* connection rows ever inserted
NumProcs == 2      \* requests that can be in flight at once
NumPosts == 1      \* rows of the posts table: ids 1..NumPosts
NumLikers == 2     \* users 1..NumLikers send like requests
MaxLikeReqs == 3   \* like requests ever received
NumCategories == 2 \* rows of the categories table: ids 1..NumCategories
MaxPosts == 1      \* post rows ever inserted by requests
MaxDocs == 2       \* document rows ever inserted
MaxSaves == 2      \* saved_posts rows ever inserted
MaxComments == 2   \* comment rows ever inserted
NumNames == 2      \* usernames a signup request may ask for, beside the taken ones
MaxSignups == 3    \* signup requests ever received
MaxShares == 2     \* document_sharing rows ever inserted

Users == 1..NumUsers
\* ids a request may name: NumUsers + 1 references no user row
UserIds == 1..(NumUsers + 1)
Procs == 1..NumProcs
Posts == 1..NumPosts
\* post ids a request may name: NumPosts + 1 references no post row
PostIds == 1..(NumPosts + 1)
\* the result of parseInt on a parameter that is not a number, and a body
\* field that is not a number
NaN == 0 - 1
\* the Authorization header of a request: absent (Missing), a token that
\* jwt.verify refuses (Bad: malformed, wrong signature, expired), or a token
\* signed for user u, which stands here as u itself
Missing == 0
Bad == 0 - 2
Tokens == {Missing, Bad} \cup Users
\* the headers of the like requests
LikeTokens == {Missing, Bad} \cup (Users \cap (1..NumLikers))

\* UserRole
UserRole == <<"Doctor", "Student", "Patient">>
\* the role of user u, in its user row and in the payload of its token
roleOf(u) == UserRole[((u - 1) % Len(UserRole)) + 1]

Categories == 1..NumCategories
\* category ids a request may name: NumCategories + 1 references no category row
CategoryIds == 1..(NumCategories + 1)

\* titles and contents of posts: strings as sequences of characters
Texts == {<<"A", "b">>, <<"c">>}
\* the post row present before any request: written by user 1, a Doctor
SeedPost == [authorId |-> 1, categoryId |-> 1, title |-> <<"A", "b">>, content |-> <<"c">>]

VARIABLES
  connections,   \* the connections table: row id = index
  likes,         \* the likes table: per (postId, userId), the number of rows
  req,           \* per handler slot: the request in flight, else the last response
  likeHist,      \* per (postId, userId): like requests received, inserts done,
                 \* and whether two of them were ever in flight together
  posts,         \* the posts table: row id = index
  savedPosts,    \* the saved_posts table: a set of rows [id, postId, userId]
  savedSeq,      \* the serial of saved_posts.id: the last id given out
  comments,      \* the comments table: row id = index
  documents,     \* the documents table: row id = index
  users,         \* the users table: row id = index
  signups,       \* signup requests received
  documentSharing  \* the document_sharing table: row id = index

\* the tables behind the post, comment, document and signup handlers
contentVars ==
  <<posts, savedPosts, savedSeq, comments, documents, users, signups, documentSharing>>

vars == <<connections, likes, req, likeHist, contentVars>>

\* ------------------------------------------------------- handler records
Idle == [pc |-> "idle", user |-> 0, id |-> 0, read |-> "none", code |-> 0,
         liked |-> "none", flag |-> FALSE, row |-> 0, list |-> << >>]

\* the handler has answered with status code: only the status is kept
Respond(code) == [Idle EXCEPT !.code = code]

\* the handler awaits its next store call at pc
InFlight(pc, user, id) == [Idle EXCEPT !.pc = pc, !.user = user, !.id = id]

\* authenticateJWT: no header -> 401, a token jwt.verify refuses -> 403,
\* otherwise next() with req.user set from the token; 0 stands for next()
authenticateJWT(tok) ==
  IF tok = Missing THEN 401 ELSE IF tok = Bad THEN 403 ELSE 0

\* ------------------------------------------------------ storage: connections
\* what findFirst returns when no row matches (undefined)
NoConnection == [userId |-> 0, connectedUserId |-> 0, status |-> "none"]

\* DrizzleStorage.getConnectionById: the row, or undefined
getConnectionById(connectionId) ==
  IF connectionId \in 1..Len(connections) THEN connections[connectionId] ELSE NoConnection

\* DrizzleStorage.updateConnectionStatus: UPDATE ... SET status WHERE id
\* variant: the update is conditional on the row still being pending
updateConnectionStatusIfPending(connectionId, status) ==
  IF connectionId \in 1..Len(connections)
       /\ connections[connectionId].status = "pending"
  THEN [connections EXCEPT ![connectionId].status = status]
  ELSE connections

updateConnectionStatus(connectionId, status) ==
  IF connectionId \in 1..Len(connections)
  THEN [connections EXCEPT ![connectionId].status = status]
  ELSE connections

\* DrizzleStorage.createConnection: the table after the insert of a pending row
\* variant: no row is inserted when the two users already share a row
createConnectionDeduplicated(userId, connectedUserId) ==
  IF \E i \in 1..Len(connections) :
       {connections[i].userId, connections[i].connectedUserId} = {userId, connectedUserId}
  THEN connections
  ELSE Append(connections,
         [userId |-> userId, connectedUserId |-> connectedUserId, status |-> "pending"])

createConnection(userId, connectedUserId) ==
  Append(connections,
         [userId |-> userId, connectedUserId |-> connectedUserId, status |-> "pending"])

\* ------------------------------------------------------------ list helpers
RECURSIVE Uniq(_)
\* Array.from(new Set(s)): first occurrences, in order
Uniq(s) ==
  IF s = << >> THEN << >>
  ELSE LET init == Uniq(SubSeq(s, 1, Len(s) - 1))
           last == s[Len(s)]
       IN  IF \E i \in 1..Len(init) : init[i] = last THEN init ELSE Append(init, last)

Range(s) == {s[i] : i \in 1..Len(s)}

MapUserId(s) == [i \in 1..Len(s) |-> s[i].userId]
MapConnectedUserId(s) == [i \in 1..Len(s) |-> s[i].connectedUserId]

\* ------------------------------------------------------ storage: colleagues
IsInitiatedAccepted(c, userId) == c.userId = userId /\ c.status = "accepted"
IsReceivedAccepted(c, userId) == c.connectedUserId = userId /\ c.status = "accepted"

\* DrizzleStorage.getUserColleagues returns user rows: here the list of their ids
\* variant: the rows where userId is the recipient are left out
getUserColleaguesMissingInverse(userId) ==
  LET userConnections == SelectSeq(connections, LAMBDA c : IsInitiatedAccepted(c, userId))
      colleagues == MapConnectedUserId(userConnections)
  IN  SelectSeq(Uniq(colleagues), LAMBDA id : id # userId)

\* variant: the ids are not passed through a Set
getUserColleaguesNoDedupe(userId) ==
  LET userConnections == SelectSeq(connections, LAMBDA c : IsInitiatedAccepted(c, userId))
      inverseUserConnections ==
        SelectSeq(connections, LAMBDA c : IsReceivedAccepted(c, userId))
      colleagues == MapConnectedUserId(userConnections) \o MapUserId(inverseUserConnections)
  IN  SelectSeq(colleagues, LAMBDA id : id # userId)

\* DrizzleStorage.getUserColleagues
getUserColleagues(userId) ==
  LET userConnections == SelectSeq(connections, LAMBDA c : IsInitiatedAccepted(c, userId))
      inverseUserConnections ==
        SelectSeq(connections, LAMBDA c : IsReceivedAccepted(c, userId))
      colleagues == MapConnectedUserId(userConnections) \o MapUserId(inverseUserConnections)
  IN  SelectSeq(Uniq(colleagues), LAMBDA id : id # userId)

Colleagues(userId) == Range(getUserColleagues(userId))

\* ----------------------------------------------------- storage: suggestions
\* the rows findMany returns for userId = u OR connectedUserId = u
existingConnections(userId) ==
  SelectSeq(connections, LAMBDA c : c.userId = userId \/ c.connectedUserId = userId)

\* DrizzleStorage.getUserSuggestions returns user rows: here the set of their ids
\* variant: only accepted rows exclude a user
getUserSuggestionsAcceptedOnly(userId) ==
  LET accepted == SelectSeq(existingConnections(userId), LAMBDA c : c.status = "accepted")
      connectedUserIds ==
        Range(MapUserId(accepted)) \cup Range(MapConnectedUserId(accepted)) \cup {userId}
  IN  {u \in Users : u \notin connectedUserIds}

\* variant: only pending rows exclude a user
getUserSuggestionsPendingOnly(userId) ==
  LET pending == SelectSeq(existingConnections(userId), LAMBDA c : c.status = "pending")
      connectedUserIds ==
        Range(MapUserId(pending)) \cup Range(MapConnectedUserId(pending)) \cup {userId}
  IN  {u \in Users : u \notin connectedUserIds}

\* DrizzleStorage.getUserSuggestions
getUserSuggestions(userId) ==
  LET connectedUserIds ==
        Range(MapUserId(existingConnections(userId)))
          \cup Range(MapConnectedUserId(existingConnections(userId)))
          \cup {userId}
  IN  {u \in Users : u \notin connectedUserIds}

\* ------------------------------------------------------ storage: mutuals
\* the counterpart ids of the accepted rows that involve userId
connectedIds(userId) ==
  {IF connections[i].userId = userId
     THEN connections[i].connectedUserId ELSE connections[i].userId :
   i \in {j \in 1..Len(connections) :
            /\ (connections[j].userId = userId \/ connections[j].connectedUserId = userId)
            /\ connections[j].status = "accepted"}}

\* DrizzleStorage.getMutualConnections returns user rows: here the set of their ids
\* variant: the ids of userId1 are not filtered by those of userId2
getMutualConnectionsNoFilter(userId1, userId2) ==
  {u \in Users : u \in connectedIds(userId1)}

\* DrizzleStorage.getMutualConnections
getMutualConnections(userId1, userId2) ==
  LET mutualIds == {id \in connectedIds(userId1) : id \in connectedIds(userId2)}
  IN  IF mutualIds = {} THEN {} ELSE {u \in Users : u \in mutualIds}

\* a row of the users table as createUser inserts it: the password column
\* holds the bcrypt hash, name stands for the profile columns
UserRow(username, role) ==
  [username |-> username, role |-> role, password |-> "hash", name |-> "n0"]

\* ------------------------------------------------------------------- Init
Init ==
  /\ connections = << >>
  /\ likes = [k \in Posts \X Users |-> 0]
  /\ req = [p \in Procs |-> Idle]
  /\ likeHist = [k \in Posts \X Users |-> [n |-> 0, inserts |-> 0, overlap |-> FALSE]]
  /\ posts = [i \in Posts |-> SeedPost]
  /\ savedPosts = {}
  /\ savedSeq = 0
  /\ comments = << >>
  /\ documents = << >>
  /\ users = [u \in Users |-> UserRow(u, roleOf(u))]
  /\ signups = 0
  /\ documentSharing = << >>

\* ------------------------------------------- POST /api/connections/connect
\* variant: connections.connected_user_id has no foreign key
ConnectNoForeignKey(p, tok, target) ==
  /\ req[p].pc = "idle"
  /\ Len(connections) < MaxConns
  /\ IF authenticateJWT(tok) # 0
     THEN /\ req' = [req EXCEPT ![p] = Respond(authenticateJWT(tok))]
          /\ connections' = connections
     ELSE IF target = NaN
     THEN /\ req' = [req EXCEPT ![p] = Respond(400)]
          /\ connections' = connections
     ELSE /\ req' = [req EXCEPT ![p] = Respond(201)]
          /\ connections' = createConnection(tok, target)
  /\ UNCHANGED <<likes, likeHist, contentVars>>

\* authenticateJWT, insertConnectionSchema.safeParse, storage.createConnection:
\* a recipient that is no user row violates the foreign key, the error is
\* re-thrown and handleErrors answers 500
Connect(p, tok, target) ==
  /\ req[p].pc = "idle"
  /\ Len(connections) < MaxConns
  /\ IF authenticateJWT(tok) # 0
     THEN /\ req' = [req EXCEPT ![p] = Respond(authenticateJWT(tok))]
          /\ connections' = connections
     ELSE IF target = NaN
     THEN /\ req' = [req EXCEPT ![p] = Respond(400)]
          /\ connections' = connections
     ELSE IF target \notin Users
     THEN /\ req' = [req EXCEPT ![p] = Respond(500)]
          /\ connections' = connections
     ELSE /\ req' = [req EXCEPT ![p] = Respond(201)]
          /\ connections' = createConnection(tok, target)
  /\ UNCHANGED <<likes, likeHist, contentVars>>

\* ------------------------------- POST /api/connections/:connectionId/accept
\* the checks of the accept handler on the row it read: 0 stands for passing
\* variant: any user may accept
AcceptCheckNoRecipient(connection, user) ==
  IF connection = NoConnection THEN 404
  ELSE IF connection.status # "pending" THEN 400
  ELSE 0

\* variant: the recipient may accept whatever the status
AcceptCheckNoStatus(connection, user) ==
  IF connection = NoConnection THEN 404
  ELSE IF connection.connectedUserId # user THEN 403
  ELSE 0

\* the accept handler's checks
AcceptCheck(connection, user) ==
  IF connection = NoConnection THEN 404
  ELSE IF connection.connectedUserId # user THEN 403
  ELSE IF connection.status # "pending" THEN 400
  ELSE 0

\* authenticateJWT, then isNaN(parseInt(param)): the response of a handler
\* before its first store call, else 0
Gate(tok, id) ==
  IF authenticateJWT(tok) # 0 THEN authenticateJWT(tok)
  ELSE IF id = NaN THEN 400
  ELSE 0

\* authenticateJWT, parseInt, storage.getConnectionById, then the recipient
\* and status checks; the handler then awaits the update
AcceptGet(p, tok, connectionId) ==
  /\ req[p].pc = "idle"
  /\ LET connection == getConnectionById(connectionId)
         code == IF Gate(tok, connectionId) # 0 THEN Gate(tok, connectionId)
                 ELSE AcceptCheck(connection, tok)
     IN  req' = [req EXCEPT ![p] =
           IF code # 0 THEN Respond(code)
           ELSE [InFlight("accept_update", tok, connectionId)
                   EXCEPT !.read = connection.status]]
  /\ UNCHANGED <<connections, likes, likeHist, contentVars>>

\* storage.updateConnectionStatus(connectionId, 'accepted'), then res.json
AcceptUpdate(p) ==
  /\ req[p].pc = "accept_update"
  /\ connections' = updateConnectionStatus(req[p].id, "accepted")
  /\ req' = [req EXCEPT ![p] = Respond(200)]
  /\ UNCHANGED <<likes, likeHist, contentVars>>

\* ------------------------------- POST /api/connections/:connectionId/reject
\* the checks of the reject handler on the row it read: 0 stands for passing
\* variant: the status of the row is not checked
RejectCheckNoStatus(connection, user) ==
  IF connection = NoConnection THEN 404
  ELSE IF /\ connection.connectedUserId # user
          /\ ~(connection.userId = user /\ connection.status = "pending") THEN 403
  ELSE 0

\* variant: the initiator passes whatever the status
RejectCheckInitiatorAnyStatus(connection, user) ==
  IF connection = NoConnection THEN 404
  ELSE IF connection.connectedUserId # user /\ connection.userId # user THEN 403
  ELSE IF connection.status # "pending" THEN 400
  ELSE 0

\* variant: the initiator may not cancel
RejectCheckRecipientOnly(connection, user) ==
  IF connection = NoConnection THEN 404
  ELSE IF connection.connectedUserId # user THEN 403
  ELSE IF connection.status # "pending" THEN 400
  ELSE 0

\* the reject handler's checks
RejectCheck(connection, user) ==
  IF connection = NoConnection THEN 404
  ELSE IF /\ connection.connectedUserId # user
          /\ ~(connection.userId = user /\ connection.status = "pending") THEN 403
  ELSE IF connection.status # "pending" THEN 400
  ELSE 0

RejectGet(p, tok, connectionId) ==
  /\ req[p].pc = "idle"
  /\ LET connection == getConnectionById(connectionId)
         code == IF Gate(tok, connectionId) # 0 THEN Gate(tok, connectionId)
                 ELSE RejectCheck(connection, tok)
     IN  req' = [req EXCEPT ![p] =
           IF code # 0 THEN Respond(code)
           ELSE [InFlight("reject_update", tok, connectionId)
                   EXCEPT !.read = connection.status]]
  /\ UNCHANGED <<connections, likes, likeHist, contentVars>>

\* storage.updateConnectionStatus(connectionId, 'rejected'), then res.json
RejectUpdate(p) ==
  /\ req[p].pc = "reject_update"
  /\ connections' = updateConnectionStatus(req[p].id, "rejected")
  /\ req' = [req EXCEPT ![p] = Respond(200)]
  /\ UNCHANGED <<likes, likeHist, contentVars>>

\* ------------------------------------------------------- the connection API
\* connection ids a request may name: MaxConns + 1 is never a row
ConnIds == (1..(MaxConns + 1)) \cup {NaN}

\* the parameter of a request matters only behind authenticateJWT: a request
\* that it answers itself is taken with one parameter value
Params(tok, S) == IF authenticateJWT(tok) = 0 THEN S ELSE {NaN}

ConnNext ==
  \E p \in Procs :
    \/ \E tok \in Tokens : \E target \in Params(tok, UserIds \cup {NaN}) :
         Connect(p, tok, target)
    \/ \E tok \in Tokens : \E id \in Params(tok, ConnIds) : AcceptGet(p, tok, id)
    \/ AcceptUpdate(p)
    \/ \E tok \in Tokens : \E id \in Params(tok, ConnIds) : RejectGet(p, tok, id)
    \/ RejectUpdate(p)

ConnSpec == Init /\ [][ConnNext]_vars

\* ------------------------------------------------------------ storage: likes
\* DrizzleStorage.createLike: what the insert into likes comes to.  A post id
\* that is no post row violates the foreign key (any error other than 23505:
\* "error"); a row for the same (postId, userId) violates
\* likes_post_user_unique_idx (23505: "alreadyExists"); otherwise the row is
\* inserted ("ok")
\* variant: likes has no unique index on (postId, userId)
createLikeNoUniqueIndex(postId, userId) ==
  IF postId \notin Posts THEN "error" ELSE "ok"

\* variant: the unique violation is not told apart from other errors
createLikeNoAlreadyExists(postId, userId) ==
  IF postId \notin Posts THEN "error"
  ELSE IF likes[<<postId, userId>>] > 0 THEN "error"
  ELSE "ok"

\* DrizzleStorage.createLike
createLike(postId, userId) ==
  IF postId \notin Posts THEN "error"
  ELSE IF likes[<<postId, userId>>] > 0 THEN "alreadyExists"
  ELSE "ok"

\* DrizzleStorage.deleteLike: DELETE FROM likes WHERE post_id AND user_id
\* variant: the delete matches no row
deleteLikeNoMatch(postId, userId) == likes

deleteLike(postId, userId) ==
  IF <<postId, userId>> \in DOMAIN likes
  THEN [likes EXCEPT ![<<postId, userId>>] = 0]
  ELSE likes

\* ------------------------------------------- POST /api/posts/:postId/like
LikesInFlight(k) ==
  {q \in Procs : req[q].pc \in {"like_delete", "like_count", "unlike_count"}
                   /\ <<req[q].id, req[q].user>> = k}

LikeReqsReceived ==
  LET RECURSIVE Sum(_)
      Sum(S) == IF S = {} THEN 0
                ELSE LET k == CHOOSE x \in S : TRUE
                     IN  likeHist[k].n + Sum(S \ {k})
  IN  Sum(DOMAIN likeHist)

\* authenticateJWT, parseInt, storage.createLike: alreadyExists goes on to
\* deleteLike, another error answers 500, an inserted row goes on to
\* getLikesForPost
LikeCreate(p, tok, postId) ==
  /\ req[p].pc = "idle"
  /\ LikeReqsReceived < MaxLikeReqs
  /\ IF Gate(tok, postId) # 0
     THEN /\ req' = [req EXCEPT ![p] = Respond(Gate(tok, postId))]
          /\ UNCHANGED <<likes, likeHist>>
     ELSE LET likeResult == createLike(postId, tok)
              k == <<postId, tok>>
          IN  IF likeResult = "alreadyExists"
              THEN /\ req' = [req EXCEPT ![p] = InFlight("like_delete", tok, postId)]
                   /\ likes' = likes
                   /\ likeHist' = [likeHist EXCEPT
                        ![k].n = @ + 1,
                        ![k].overlap = @ \/ LikesInFlight(k) # {}]
              ELSE IF likeResult = "error"
              THEN /\ req' = [req EXCEPT ![p] = Respond(500)]
                   /\ likes' = likes
                   /\ likeHist' =
                        IF k \in DOMAIN likeHist
                        THEN [likeHist EXCEPT
                               ![k].n = @ + 1,
                               ![k].overlap = @ \/ LikesInFlight(k) # {}]
                        ELSE likeHist
              ELSE /\ req' = [req EXCEPT ![p] = InFlight("like_count", tok, postId)]
                   /\ likes' = [likes EXCEPT ![k] = @ + 1]
                   /\ likeHist' = [likeHist EXCEPT
                        ![k].n = @ + 1,
                        ![k].inserts = @ + 1,
                        ![k].overlap = @ \/ LikesInFlight(k) # {}]
  /\ UNCHANGED <<connections, contentVars>>

\* storage.deleteLike, then on to getLikesForPost
LikeDelete(p) ==
  /\ req[p].pc = "like_delete"
  /\ likes' = deleteLike(req[p].id, req[p].user)
  /\ req' = [req EXCEPT ![p].pc = "unlike_count"]
  /\ UNCHANGED <<connections, likeHist, contentVars>>

\* storage.getLikesForPost, then res.json with liked: true after an insert
\* and liked: false after a delete
LikeCount(p) ==
  /\ req[p].pc \in {"like_count", "unlike_count"}
  /\ req' = [req EXCEPT ![p] =
       [Respond(200) EXCEPT !.liked = (req[p].pc = "like_count")]]
  /\ UNCHANGED <<connections, likes, likeHist, contentVars>>

\* ------------------------------------------------------------- the like API
LikeNext ==
  \E p \in Procs :
    \/ \E tok \in LikeTokens : \E postId \in Params(tok, PostIds \cup {NaN}) :
         LikeCreate(p, tok, postId)
    \/ LikeDelete(p)
    \/ LikeCount(p)

LikeSpec == Init /\ [][LikeNext]_vars

\* ------------------------------------------------------------ the role gate
\* authorizeRoles(...allowedRoles) behind authenticateJWT: 403 when the role
\* of the token is not allowed, else next() (0)
\* variant: every role is let through
authorizeRolesAnyRole(allowedRoles, tok) == 0

authorizeRoles(allowedRoles, tok) ==
  IF roleOf(tok) \notin allowedRoles THEN 403 ELSE 0

\* authenticateJWT, then authorizeRoles(UserRole.enum.Doctor): the response
\* of the middleware chain, else 0
DoctorGate(tok) ==
  IF authenticateJWT(tok) # 0 THEN authenticateJWT(tok)
  ELSE authorizeRoles({"Doctor"}, tok)

\* the answer of the middleware chain to a request it stops: the status,
\* and the user of the token if authenticateJWT let it through
Refuse(tok) ==
  [Respond(DoctorGate(tok)) EXCEPT !.user = IF authenticateJWT(tok) = 0 THEN tok ELSE 0]

\* ------------------------------------------------------------ storage: posts
\* DrizzleStorage.createPost: the table after the insert
createPost(post, authorId) ==
  Append(posts, [authorId |-> authorId, categoryId |-> post.categoryId,
                 title |-> post.title, content |-> post.content])

\* DrizzleStorage.createDocument: the table after the insert
createDocument(ownerId) == Append(documents, [ownerId |-> ownerId])

\* post rows inserted by requests
PostsCreated == Len(posts) - NumPosts

\* ---------------------------------------------------------- POST /api/posts
\* authenticateJWT, authorizeRoles(Doctor), insertPostSchema.safeParse (a
\* categoryId that parseInt turns into NaN fails: 400), storage.createPost: a
\* categoryId that is no category row violates the foreign key, the error is
\* re-thrown and handleErrors answers 500
CreatePost(p, tok, categoryId, title, content) ==
  /\ req[p].pc = "idle"
  /\ PostsCreated < MaxPosts
  /\ IF DoctorGate(tok) # 0
     THEN /\ req' = [req EXCEPT ![p] = Refuse(tok)]
          /\ posts' = posts
     ELSE IF categoryId = NaN
     THEN /\ req' = [req EXCEPT ![p] = Respond(400)]
          /\ posts' = posts
     ELSE IF categoryId \notin Categories
     THEN /\ req' = [req EXCEPT ![p] = Respond(500)]
          /\ posts' = posts
     ELSE /\ req' = [req EXCEPT ![p] = Respond(201)]
          /\ posts' = createPost([categoryId |-> categoryId, title |-> title,
                                  content |-> content], tok)
  /\ UNCHANGED <<connections, likes, likeHist, documentSharing, savedPosts, savedSeq, comments,
                 documents, users, signups>>

\* ------------------------------------------------ POST /api/documents/upload
\* authenticateJWT, authorizeRoles(Doctor), upload.single: no file answers
\* 400, else storage.createDocument and 201
UploadDocument(p, tok, file) ==
  /\ req[p].pc = "idle"
  /\ Len(documents) < MaxDocs
  /\ IF DoctorGate(tok) # 0
     THEN /\ req' = [req EXCEPT ![p] = Refuse(tok)]
          /\ documents' = documents
     ELSE IF ~file
     THEN /\ req' = [req EXCEPT ![p] = Respond(400)]
          /\ documents' = documents
     ELSE /\ req' = [req EXCEPT ![p] = Respond(201)]
          /\ documents' = createDocument(tok)
  /\ UNCHANGED <<connections, likes, likeHist, documentSharing, posts, savedPosts, savedSeq,
                 comments, users, signups>>

\* --------------------------------------------- POST /api/prescription/generate
\* authenticateJWT, authorizeRoles(Doctor), then the PDF is piped to the
\* response (200); no table is written
GeneratePrescription(p, tok) ==
  /\ req[p].pc = "idle"
  /\ req' = [req EXCEPT ![p] =
       IF DoctorGate(tok) # 0 THEN Refuse(tok) ELSE Respond(200)]
  /\ UNCHANGED <<connections, likes, likeHist, contentVars>>

\* ---------------------------------------------------- the Doctor-only API
GateNext ==
  \E p \in Procs :
    \/ \E tok \in Tokens :
         \E categoryId \in Params(tok, CategoryIds \cup {NaN}) :
           \E title \in Params(tok, Texts), content \in Params(tok, Texts) :
             CreatePost(p, tok, categoryId, title, content)
    \/ \E tok \in Tokens, file \in BOOLEAN : UploadDocument(p, tok, file)
    \/ \E tok \in Tokens : GeneratePrescription(p, tok)

GateSpec == Init /\ [][GateNext]_vars

\* ------------------------------------------------------- storage: getPosts
\* the categoryId query parameter: absent or empty (NoParam), the string
\* "all" (All), or the decimal string of a number, which stands as the number
NoParam == 0
All == 0 - 3
CategoryParams == {NoParam, All} \cup CategoryIds
\* the filter query parameter: "none" stands for absent
Filters == {"none", "saved", "latest"}
\* the searchTerm query parameter: << >> stands for absent or empty.  The
\* terms hold no LIKE wildcard (% or _).
Terms == {<< >>, <<"a">>, <<"B">>, <<"C">>, <<"b", "c">>}

\* String.prototype.toLowerCase and SQL lower(), character by character
LowerChar(ch) ==
  CASE ch = "A" -> "a"
    [] ch = "B" -> "b"
    [] ch = "C" -> "c"
    [] OTHER -> ch

toLowerCase(text) == [i \in 1..Len(text) |-> LowerChar(text[i])]

\* text LIKE %term%
Like(text, term) ==
  \E i \in 0..(Len(text) - Len(term)) : SubSeq(text, i + 1, i + Len(term)) = term

\* the where clause of the posts query: the conditions pushed for categoryId
\* and searchTerm, joined by and
\* variant: the category condition is never pushed
ConditionsNoCategory(post, searchTerm, categoryId) ==
  searchTerm # << >> =>
     \/ Like(toLowerCase(post.title), toLowerCase(searchTerm))
     \/ Like(toLowerCase(post.content), toLowerCase(searchTerm))

Conditions(post, searchTerm, categoryId) ==
  /\ (categoryId # NoParam /\ categoryId # All => post.categoryId = categoryId)
  /\ (searchTerm # << >> =>
        \/ Like(toLowerCase(post.title), toLowerCase(searchTerm))
        \/ Like(toLowerCase(post.content), toLowerCase(searchTerm)))

\* the ids of the rows of posts, newest first (orderBy desc createdAt)
NewestFirst == [i \in 1..Len(posts) |-> Len(posts) + 1 - i]

\* the postIds of the saved_posts rows of a user
\* variant: the rows of every user
SavedPostIdsOfAnyUser(currentUserId) == {r.postId : r \in savedPosts}

SavedPostIds(currentUserId) ==
  {r.postId : r \in {x \in savedPosts : x.userId = currentUserId}}

\* DrizzleStorage.getPosts for a request with a user: the posts returned,
\* each as its id and its saved flag
getPosts(currentUserId, filter, searchTerm, categoryId) ==
  LET fetchedPosts ==
        SelectSeq(NewestFirst, LAMBDA id : Conditions(posts[id], searchTerm, categoryId))
      savedPostIds == SavedPostIds(currentUserId)
      kept == IF filter = "saved"
              THEN IF savedPostIds = {} THEN << >>
                   ELSE SelectSeq(fetchedPosts, LAMBDA id : id \in savedPostIds)
              ELSE fetchedPosts
  IN  [i \in 1..Len(kept) |->
         [id |-> kept[i], saved |-> kept[i] \in SavedPostIds(currentUserId)]]

\* GET /api/posts: storage.getPosts, then each post with saved set from a
\* second getPosts(currentUserId, "saved")
GetPosts(currentUserId, filter, searchTerm, categoryId) ==
  LET listed == getPosts(currentUserId, filter, searchTerm, categoryId)
      savedUserPosts == getPosts(currentUserId, "saved", << >>, NoParam)
  IN  [i \in 1..Len(listed) |->
         [id |-> listed[i].id,
          saved |-> \E j \in 1..Len(savedUserPosts) : savedUserPosts[j].id = listed[i].id]]

\* ------------------------------------------------ POST /api/posts/:id/save
\* the saved_posts rows findFirst may return for (postId, userId)
ExistingSavedPosts(postId, userId) ==
  {r \in savedPosts : r.postId = postId /\ r.userId = userId}

\* requests about to insert a saved_posts row
SavesInFlight == Cardinality({q \in Procs : req[q].pc = "save_insert"})

\* authenticateJWT, parseInt (NaN is passed on and fails in the query: 500),
\* then storage.savePost: findFirst of a row of (postId, userId); the handler
\* goes on to the insert when saving and none was found, to the delete of
\* the row found when unsaving, and otherwise answers at once
SavePostFind(p, tok, postId, saved) ==
  /\ req[p].pc = "idle"
  /\ savedSeq + SavesInFlight < MaxSaves
  /\ IF authenticateJWT(tok) # 0
     THEN req' = [req EXCEPT ![p] = Respond(authenticateJWT(tok))]
     ELSE IF postId = NaN
     THEN req' = [req EXCEPT ![p] = Respond(500)]
     ELSE IF saved /\ ExistingSavedPosts(postId, tok) = {}
     THEN req' = [req EXCEPT ![p] = InFlight("save_insert", tok, postId)]
     ELSE IF ~saved /\ ExistingSavedPosts(postId, tok) # {}
     THEN \E existingSavedPost \in ExistingSavedPosts(postId, tok) :
            req' = [req EXCEPT ![p] =
              [InFlight("save_delete", tok, postId) EXCEPT !.row = existingSavedPost.id]]
     ELSE req' = [req EXCEPT ![p] = Respond(200)]
  /\ UNCHANGED <<connections, likes, likeHist, contentVars>>

\* storage.savePost: the insert; a postId that is no post row violates the
\* foreign key and handleErrors answers 500
SavePostInsert(p) ==
  /\ req[p].pc = "save_insert"
  /\ IF req[p].id \in 1..Len(posts)
     THEN /\ savedSeq' = savedSeq + 1
          /\ savedPosts' = savedPosts \cup
               {[id |-> savedSeq + 1, postId |-> req[p].id, userId |-> req[p].user]}
          /\ req' = [req EXCEPT ![p] = Respond(200)]
     ELSE /\ UNCHANGED <<savedSeq, savedPosts>>
          /\ req' = [req EXCEPT ![p] = Respond(500)]
  /\ UNCHANGED <<connections, likes, likeHist, documentSharing, posts, comments, documents, users,
                 signups>>

\* storage.savePost: the delete of the row found, by its id
SavePostDelete(p) ==
  /\ req[p].pc = "save_delete"
  /\ savedPosts' = {r \in savedPosts : r.id # req[p].row}
  /\ req' = [req EXCEPT ![p] = Respond(200)]
  /\ UNCHANGED <<connections, likes, likeHist, documentSharing, posts, savedSeq, comments, documents,
                 users, signups>>

\* ------------------------------------------------------------- the post API
\* post ids a save request may name: one more than the rows there can be
SavePostIds == (1..(NumPosts + MaxPosts + 1)) \cup {NaN}

PostNext ==
  \E p \in Procs :
    \/ \E tok \in Tokens :
         \E categoryId \in Params(tok, CategoryIds \cup {NaN}) :
           \E title \in Params(tok, Texts), content \in Params(tok, Texts) :
             CreatePost(p, tok, categoryId, title, content)
    \/ \E tok \in Tokens :
         \E postId \in Params(tok, SavePostIds), saved \in BOOLEAN :
           SavePostFind(p, tok, postId, saved)
    \/ SavePostInsert(p)
    \/ SavePostDelete(p)

PostSpec == Init /\ [][PostNext]_vars

\* --------------------------------------------------------- storage: comments
\* a request body without parentId, or with parentId null
NoParent == 0
\* comment ids a request may name as parentId: MaxComments + 1 is never a row
ParentIds == (1..(MaxComments + 1)) \cup {NoParent, NaN}
\* post ids a comment request may name: one more than the rows there can be
CommentPostIds == (1..(NumPosts + MaxPosts + 1)) \cup {NaN}

\* DrizzleStorage.createComment: what the insert into comments comes to.  A
\* postId that is no post row, or a parentId that is no comment row, violates
\* a foreign key ("error"); otherwise the row is inserted ("ok")
createComment(postId, userId, parentId) ==
  IF postId \notin 1..Len(posts) THEN "error"
  ELSE IF parentId # NoParent /\ parentId \notin 1..Len(comments) THEN "error"
  ELSE "ok"

\* ------------------------------------------ POST /api/posts/:postId/comments
\* authenticateJWT, parseInt, createCommentSchema.safeParse (content of at
\* least one character, parentId a positive integer, null or absent), then
\* storage.createComment; the handler then awaits getCommentById
CreateComment(p, tok, postId, hasContent, parentId) ==
  /\ req[p].pc = "idle"
  /\ Len(comments) < MaxComments
  /\ IF Gate(tok, postId) # 0
     THEN /\ req' = [req EXCEPT ![p] = Respond(Gate(tok, postId))]
          /\ comments' = comments
     ELSE IF ~hasContent \/ parentId = NaN
     THEN /\ req' = [req EXCEPT ![p] = Respond(400)]
          /\ comments' = comments
     ELSE IF createComment(postId, tok, parentId) = "error"
     THEN /\ req' = [req EXCEPT ![p] = Respond(500)]
          /\ comments' = comments
     ELSE /\ req' = [req EXCEPT ![p] = InFlight("comment_read", tok, Len(comments) + 1)]
          /\ comments' = Append(comments,
               [postId |-> postId, userId |-> tok, parentId |-> parentId])
  /\ UNCHANGED <<connections, likes, likeHist, documentSharing, posts, savedPosts, savedSeq,
                 documents, users, signups>>

\* storage.getCommentById, then res.status(201)
CommentRead(p) ==
  /\ req[p].pc = "comment_read"
  /\ req' = [req EXCEPT ![p] = Respond(201)]
  /\ UNCHANGED <<connections, likes, likeHist, contentVars>>

\* ---------------------------------------------------------- the comment API
\* No comment handler reads the category, title or content of a post: posts
\* are created here with those of the first row.
CommentNext ==
  \E p \in Procs :
    \/ \E tok \in Tokens :
         CreatePost(p, tok, SeedPost.categoryId, SeedPost.title, SeedPost.content)
    \/ \E tok \in Tokens :
         \E postId \in Params(tok, CommentPostIds), parentId \in Params(tok, ParentIds) :
           \E hasContent \in BOOLEAN : CreateComment(p, tok, postId, hasContent, parentId)
    \/ CommentRead(p)

CommentSpec == Init /\ [][CommentNext]_vars

\* ------------------------------------------------------------ storage: users
\* usernames stand as numbers: user u of the table before any request has
\* username u; 0 stands for a request without a username
Usernames == 0..(NumUsers + NumNames)
\* the role field of a signup request: "Admin" is none of UserRole.options
SignupRoles == Range(UserRole) \cup {"Admin"}

\* DrizzleStorage.getUserByUsername: whether findFirst returns a row
getUserByUsername(username) ==
  \E i \in 1..Len(users) : users[i].username = username

\* DrizzleStorage.createUser: what the insert into users comes to.  A row
\* with the same username violates users_username_unique (23505, re-thrown:
\* "error"); otherwise the row is inserted ("ok")
\* variant: users.username has no unique constraint
createUserNoUniqueConstraint(username) == "ok"

createUser(username) ==
  IF \E i \in 1..Len(users) : users[i].username = username THEN "error" ELSE "ok"

\* ----------------------------------------------------- POST /api/auth/signup
\* the role and required-field checks, then storage.getUserByUsername: an
\* existing row answers 400; the handler then goes on to storage.createUser
SignupCheck(p, username, role) ==
  /\ req[p].pc = "idle"
  /\ signups < MaxSignups
  /\ signups' = signups + 1
  /\ req' = [req EXCEPT ![p] =
       IF role \notin Range(UserRole) THEN Respond(400)
       ELSE IF username = 0 THEN Respond(400)
       ELSE IF getUserByUsername(username) THEN Respond(400)
       ELSE [InFlight("signup_hash", 0, username) EXCEPT !.read = role]]
  /\ UNCHANGED <<connections, likes, likeHist, documentSharing, posts, savedPosts, savedSeq,
                 comments, documents, users>>

\* storage.createUser: bcrypt.hash, then on to the insert
SignupHash(p) ==
  /\ req[p].pc = "signup_hash"
  /\ req' = [req EXCEPT ![p].pc = "signup_insert"]
  /\ UNCHANGED <<connections, likes, likeHist, contentVars>>

\* storage.createUser: the insert; an error is re-thrown and handleErrors
\* answers 500, an inserted row is answered 201 with a token
SignupInsert(p) ==
  /\ req[p].pc = "signup_insert"
  /\ IF createUser(req[p].id) = "ok"
     THEN /\ users' = Append(users, UserRow(req[p].id, req[p].read))
          /\ req' = [req EXCEPT ![p] = Respond(201)]
     ELSE /\ users' = users
          /\ req' = [req EXCEPT ![p] = Respond(500)]
  /\ UNCHANGED <<connections, likes, likeHist, documentSharing, posts, savedPosts, savedSeq,
                 comments, documents, signups>>

\* ----------------------------------------------------------- the signup API
SignupNext ==
  \E p \in Procs :
    \/ \E username \in Usernames, role \in SignupRoles : SignupCheck(p, username, role)
    \/ SignupHash(p)
    \/ SignupInsert(p)

SignupSpec == Init /\ [][SignupNext]_vars

\* ------------------------------------------------- storage: document sharing
\* the userIds arrays of a share request: up to MaxShares ids, repeats and
\* ids of no user row included; << >> also stands for a body with no array
RECURSIVE Arrays(_)
Arrays(n) ==
  IF n = 0 THEN {<< >>}
  ELSE Arrays(n - 1) \cup {Append(a, u) : a \in Arrays(n - 1), u \in UserIds}

UserIdArrays == Arrays(MaxShares)

\* document ids a share request may name: MaxDocs + 1 is never a row
DocumentIds == (1..(MaxDocs + 1)) \cup {NaN}

\* DrizzleStorage.shareDocument: the rows to insert, one per element of
\* userIds that no existing row of the document shares with
newShares(documentId, userIds) ==
  LET alreadySharedUserIds ==
        {documentSharing[i].userId :
           i \in {j \in 1..Len(documentSharing) :
                    /\ documentSharing[j].documentId = documentId
                    /\ documentSharing[j].userId \in Range(userIds)}}
  IN  SelectSeq(userIds, LAMBDA uid : uid \notin alreadySharedUserIds)

RECURSIVE SumLen(_)
SumLen(S) ==
  IF S = {} THEN 0
  ELSE LET q == CHOOSE x \in S : TRUE IN Len(req[q].list) + SumLen(S \ {q})

\* rows that requests in flight are about to insert
SharesInFlight == SumLen({q \in Procs : req[q].pc = "share_insert"})

\* --------------------------------------------- POST /api/documents/:id/share
\* The route has no middleware: the Authorization header (tok) is not looked
\* at.  parseInt (NaN is passed on and fails in the query: 500), the array
\* check (400), then storage.shareDocument: findMany of the existing rows;
\* the handler goes on to the insert when there are rows to insert and
\* otherwise answers at once
ShareFind(p, tok, documentId, userIds) ==
  /\ req[p].pc = "idle"
  /\ Len(documentSharing) + SharesInFlight + Len(userIds) <= MaxShares
  /\ req' = [req EXCEPT ![p] =
       IF userIds = << >> THEN Respond(400)
       ELSE IF documentId = NaN THEN Respond(500)
       ELSE IF newShares(documentId, userIds) = << >> THEN Respond(200)
       ELSE [InFlight("share_insert", 0, documentId)
               EXCEPT !.list = newShares(documentId, userIds)]]
  /\ UNCHANGED <<connections, likes, likeHist, contentVars>>

\* storage.shareDocument: the insert of all the rows at once; a documentId
\* that is no document row or a userId that is no user row violates a
\* foreign key and handleErrors answers 500
ShareInsert(p) ==
  /\ req[p].pc = "share_insert"
  /\ IF req[p].id \in 1..Len(documents) /\ Range(req[p].list) \subseteq Users
     THEN /\ documentSharing' = documentSharing \o
               [i \in 1..Len(req[p].list) |->
                  [documentId |-> req[p].id, userId |-> req[p].list[i]]]
          /\ req' = [req EXCEPT ![p] = Respond(200)]
     ELSE /\ documentSharing' = documentSharing
          /\ req' = [req EXCEPT ![p] = Respond(500)]
  /\ UNCHANGED <<connections, likes, likeHist, posts, savedPosts, savedSeq,
                 comments, documents, users, signups>>

\* ----------------------------------------------------------- the document API
ShareNext ==
  \E p \in Procs :
    \/ \E tok \in Tokens, file \in BOOLEAN : UploadDocument(p, tok, file)
    \/ \E tok \in Tokens, documentId \in DocumentIds, userIds \in UserIdArrays :
         ShareFind(p, tok, documentId, userIds)
    \/ ShareInsert(p)

ShareSpec == Init /\ [][ShareNext]_vars

\* ------------------------------------------------------ PUT /api/users/profile
\* the keys of updateUserProfileSchema: name stands for all of them
ProfileFields == {"name"}
\* the keys a request body may hold
BodyFields == ProfileFields \cup {"id", "username", "password", "role"}

\* a request body with the keys F: name is n, the other keys hold values
\* that differ from those of every row
Body(F, n) ==
  [k \in F |->
     CASE k = "name" -> n
       [] k = "id" -> NumUsers + 1
       [] k = "username" -> NumUsers + 1
       [] k = "password" -> "pw"
       [] OTHER -> "Admin"]

Bodies == {Body(F, n) : F \in SUBSET BodyFields, n \in {"", "n1"}}

\* updateUserProfileSchema.safeParse(body).success: name, if present, has at
\* least one character
ProfileValid(body) == "name" \in DOMAIN body => body["name"] # ""

\* updateUserProfileSchema.safeParse(body).data: a z.object strips the keys
\* it does not declare
\* variant: the unknown keys are passed through
ProfileDataPassthrough(body) == body

ProfileData(body) == [k \in DOMAIN body \cap ProfileFields |-> body[k]]

\* DrizzleStorage.updateUser: no key, no update; else UPDATE users SET the
\* keys given WHERE id
updateUser(userId, updates) ==
  IF DOMAIN updates = {} THEN users
  ELSE [users EXCEPT ![userId] =
         [k \in DOMAIN @ |-> IF k \in DOMAIN updates THEN updates[k] ELSE @[k]]]

\* authenticateJWT, updateUserProfileSchema.safeParse (400), then
\* storage.updateUser on the row of the token's user (200)
UpdateProfile(p, tok, body) ==
  /\ req[p].pc = "idle"
  /\ IF authenticateJWT(tok) # 0
     THEN /\ req' = [req EXCEPT ![p] = Respond(authenticateJWT(tok))]
          /\ users' = users
     ELSE IF ~ProfileValid(body)
     THEN /\ req' = [req EXCEPT ![p] = Respond(400)]
          /\ users' = users
     ELSE /\ req' = [req EXCEPT ![p] = Respond(200)]
          /\ users' = updateUser(tok, ProfileData(body))
  /\ UNCHANGED <<connections, likes, likeHist, documentSharing, posts, savedPosts,
                 savedSeq, comments, documents, signups>>

\* ----------------------------------------------------------- the profile API
ProfileNext ==
  \E p \in Procs :
    \E tok \in Tokens : \E body \in Params(tok, Bodies) : UpdateProfile(p, tok, body)

ProfileSpec == Init /\ [][ProfileNext]_vars

\* ------------------------------------------- response bodies with user objects
\* const { password, ...rest } = u
StripPassword(u) == [k \in DOMAIN u \ {"password"} |-> u[k]]

\* GET /api/users: storage.getUsers, each row without its password
GetUsers == [i \in 1..Len(users) |-> StripPassword(users[i])]

\* DrizzleStorage.getConnectionRequests: the user rows of the initiators of
\* the pending rows received (with: user: true)
getConnectionRequests(userId) ==
  LET requests == SelectSeq(connections,
                    LAMBDA c : c.connectedUserId = userId /\ c.status = "pending")
  IN  [i \in 1..Len(requests) |-> users[requests[i].userId]]

\* GET /api/users/connection-requests: res.json(requests)
GetConnectionRequests(userId) == getConnectionRequests(userId)

\* DrizzleStorage.getConnectionsForUser: the rows of the user, each with the
\* user rows of both ends (with: user: true, connectedUser: true)
getConnectionsForUser(userId) ==
  LET rows == existingConnections(userId)
  IN  [i \in 1..Len(rows) |->
         [userId |-> rows[i].userId, connectedUserId |-> rows[i].connectedUserId,
          status |-> rows[i].status,
          user |-> users[rows[i].userId],
          connectedUser |-> users[rows[i].connectedUserId]]]

\* GET /api/connections: res.json(connections)
GetConnections(userId) == getConnectionsForUser(userId)

\* GET /api/users/:userId/mutual-connections/:otherUserId:
\* res.json(mutualConnections), the user rows of the mutual ids
GetMutualConnections(userId, otherUserId) ==
  {users[id] : id \in getMutualConnections(userId, otherUserId)}

\* ------------------------------------------------------------ the whole API
\* The APIs are checked each under its own specification: they meet only in
\* the posts table, which the comment and post APIs both take with the
\* post handler that writes it.
Next ==
  \/ ConnNext \/ LikeNext \/ GateNext \/ PostNext \/ CommentNext \/ SignupNext
  \/ ShareNext \/ ProfileNext

Spec == Init /\ [][Next]_vars

\* ==================================================================
\* Properties of the connection API (ConnSpec)
\* ==================================================================
Rows == 1..Len(connections)

\* a handler slot that is about to write the row it read
Writer(p, i) ==
  /\ req[p].pc \in {"accept_update", "reject_update"}
  /\ req[p].id = i

StatusChanges(i) == connections'[i].status # connections[i].status

\* slot p takes a request in this step
Arrives(p) == req[p].pc = "idle" /\ req'[p] # req[p]

\* C1 (as stated): the status of a row only ever changes pending -> accepted
\* or pending -> rejected; an accepted or rejected row never changes again.
C1_OnlyFromPending ==
  [][\A i \in Rows :
       StatusChanges(i) =>
         /\ connections[i].status = "pending"
         /\ connections'[i].status \in {"accepted", "rejected"}]_vars

\* C1 (amended): a status never changes back to pending, and every change is
\* the write of an Accept (to accepted) or a Reject (to rejected) whose own
\* read of the row saw pending; a row that no such request has in flight
\* changes only from pending.
C1_WritesFollowPendingRead ==
  [][\A i \in Rows :
       StatusChanges(i) =>
         /\ connections'[i].status \in {"accepted", "rejected"}
         /\ \E p \in Procs :
              /\ Writer(p, i)
              /\ req[p].read = "pending"
              /\ req'[p].pc = "idle"
              /\ connections'[i].status =
                   (IF req[p].pc = "accept_update" THEN "accepted" ELSE "rejected")
         /\ (connections[i].status # "pending" =>
               \E q \in Procs : Writer(q, i) /\ req[q].read = "pending")]_vars

\* C1 witness: a Reject that read pending is about to overwrite accepted
C1_Witness ==
  \E i \in Rows, p \in Procs :
    /\ connections[i].status = "accepted"
    /\ req[p].pc = "reject_update" /\ req[p].id = i /\ req[p].read = "pending"

\* C2: Accept writes accepted only for the recipient of a row it read as
\* pending; any other acting user gets 403 and the recipient of a row that
\* is not pending gets 400, both without a write.
C2_AcceptGuard ==
  [][\A p \in Procs :
       /\ AcceptUpdate(p) =>
            /\ req[p].read = "pending"
            /\ connections[req[p].id].connectedUserId = req[p].user
            /\ connections'[req[p].id].status = "accepted"
       /\ Arrives(p) =>
            \A tok \in Users, id \in Rows :
              AcceptGet(p, tok, id) =>
                /\ connections' = connections
                /\ (connections[id].connectedUserId # tok =>
                      req'[p].pc = "idle" /\ req'[p].code = 403)
                /\ (connections[id].connectedUserId = tok
                      /\ connections[id].status # "pending" =>
                      req'[p].pc = "idle" /\ req'[p].code = 400)
                /\ (req'[p].pc = "accept_update" =>
                      /\ connections[id].connectedUserId = tok
                      /\ connections[id].status = "pending")]_vars

\* C2 witness: a row was accepted, one Accept was answered 403, another 400
C2_Witness ==
  /\ \E i \in Rows : connections[i].status = "accepted"
  /\ \E p, q \in Procs : req[p].code = 403 /\ req[q].code = 400

\* C3 (as stated): for an acting user who is not the recipient of the row,
\* Accept and Reject both answer 403 and leave the row as it is.
C3_NonRecipientForbidden ==
  [][\A p \in Procs :
       Arrives(p) =>
         \A tok \in Users, id \in Rows :
           connections[id].connectedUserId # tok =>
             /\ AcceptGet(p, tok, id) =>
                  req'[p].pc = "idle" /\ req'[p].code = 403 /\ connections' = connections
             /\ RejectGet(p, tok, id) =>
                  req'[p].pc = "idle" /\ req'[p].code = 403 /\ connections' = connections]_vars

\* C3 (amended): for an acting user who is not the recipient of the row,
\* Accept answers 403, and Reject answers 403 unless the acting user is the
\* initiator and the row read is pending (the initiator cancelling the
\* request, which goes on to the write); a 403 leaves the row as it is.
C3_NonRecipientForbiddenButCancel ==
  [][\A p \in Procs :
       Arrives(p) =>
         \A tok \in Users, id \in Rows :
           connections[id].connectedUserId # tok =>
             /\ AcceptGet(p, tok, id) =>
                  req'[p].pc = "idle" /\ req'[p].code = 403 /\ connections' = connections
             /\ RejectGet(p, tok, id) =>
                  /\ connections' = connections
                  /\ IF connections[id].userId = tok /\ connections[id].status = "pending"
                     THEN req'[p].pc = "reject_update"
                     ELSE req'[p].pc = "idle" /\ req'[p].code = 403]_vars

\* C3 witness: one request was answered 403 while the initiator of a pending
\* row is about to write its own rejection
C3_Witness ==
  \E p, q \in Procs :
    /\ req[p].code = 403
    /\ req[q].pc = "reject_update"
    /\ connections[req[q].id].userId = req[q].user
    /\ connections[req[q].id].connectedUserId # req[q].user

\* a Reject request passes its checks and goes on to the write
RejectPasses(p) == req'[p].pc = "reject_update"

\* C4 (as stated): Reject succeeds whenever the acting user is the recipient,
\* and whenever it is the initiator of a pending row; a successful Reject
\* sets rejected.
C4_RejectSucceeds ==
  [][\A p \in Procs :
       /\ Arrives(p) =>
            \A tok \in Users, id \in Rows :
              RejectGet(p, tok, id) =>
                /\ (connections[id].connectedUserId = tok => RejectPasses(p))
                /\ (connections[id].userId = tok /\ connections[id].status = "pending"
                      => RejectPasses(p))
       /\ RejectUpdate(p) =>
            connections'[req[p].id].status = "rejected" /\ req'[p].code = 200]_vars

\* C4 (amended): Reject succeeds whenever the row it reads is pending and the
\* acting user is its recipient or its initiator; the recipient of a row
\* that is no longer pending is answered 400; a successful Reject sets
\* rejected.
C4_RejectSucceedsOnPending ==
  [][\A p \in Procs :
       /\ Arrives(p) =>
            \A tok \in Users, id \in Rows :
              RejectGet(p, tok, id) =>
                /\ (connections[id].status = "pending"
                      /\ tok \in {connections[id].connectedUserId, connections[id].userId}
                      => RejectPasses(p))
                /\ (connections[id].status # "pending"
                      /\ connections[id].connectedUserId = tok
                      => req'[p].pc = "idle" /\ req'[p].code = 400)
       /\ RejectUpdate(p) =>
            connections'[req[p].id].status = "rejected" /\ req'[p].code = 200]_vars

\* C4 witness: a row was rejected and its Reject answered 200, and a Reject
\* of a row that is not pending was answered 400
C4_Witness ==
  /\ \E i \in Rows : connections[i].status = "rejected"
  /\ \E p, q \in Procs : req[p].code = 200 /\ req[q].code = 400

\* C5: no reachable state holds an accepted row whose initiator and
\* recipient are the same user.
C5_NoAcceptedSelfConnection ==
  \A i \in Rows :
    ~(connections[i].status = "accepted"
       /\ connections[i].userId = connections[i].connectedUserId)

C7_MutualSymmetric ==
  \A a, b \in UserIds : getMutualConnections(a, b) = getMutualConnections(b, a)

\* C7 witness: two users have a mutual connection
C7_Witness ==
  \E a, b \in Users : a # b /\ getMutualConnections(a, b) # {}

\* C11: an Accept and a Reject of one pending row that both read pending
\* before either writes both succeed (200): the first write changes the
\* pending row, the second overwrites what the first has written, so the
\* row ends with the status written last.
C11_LastWriteWins ==
  [][\A p \in Procs :
       Writer(p, req[p].id) /\ req[p].read = "pending" /\ req'[p] # req[p] =>
         LET mine == IF req[p].pc = "accept_update" THEN "accepted" ELSE "rejected"
             others == {q \in Procs \ {p} :
                          Writer(q, req[p].id) /\ req[q].read = "pending"}
         IN  /\ req'[p].pc = "idle" /\ req'[p].code = 200
             /\ connections'[req[p].id].status = mine
             /\ \A q \in others : req'[q] = req[q]]_vars

\* C11 witness: the only row of the table has been written by two requests
\* that both answered 200, the later one a Reject
C11_Witness ==
  /\ Len(connections) = 1
  /\ connections[1].status = "rejected"
  /\ \E p, q \in Procs : p # q /\ req[p].code = 200 /\ req[q].code = 200

\* the users that share an accepted row with x, in either direction
AcceptedCounterparts(x) ==
  {y \in Users \ {x} :
     \E i \in Rows :
       /\ connections[i].status = "accepted"
       /\ {connections[i].userId, connections[i].connectedUserId} = {x, y}}

\* C12: for every user X, Colleagues(X) is exactly the set of users Y # X
\* that share an accepted row with X in either direction; each Y is listed
\* once and X is never listed.
C12_ColleaguesExact ==
  \A x \in Users :
    /\ Colleagues(x) = AcceptedCounterparts(x)
    /\ Len(getUserColleagues(x)) = Cardinality(AcceptedCounterparts(x))
    /\ x \notin Colleagues(x)

\* C12 witness: two users share two accepted rows, one in each direction,
\* and each lists the other once
C12_Witness ==
  \E i, j \in Rows :
    /\ i # j
    /\ connections[i].status = "accepted" /\ connections[j].status = "accepted"
    /\ connections[i].userId = connections[j].connectedUserId
    /\ connections[i].connectedUserId = connections[j].userId
    /\ connections[i].userId # connections[i].connectedUserId
    /\ getUserColleagues(connections[i].userId) = <<connections[i].connectedUserId>>

\* the users that share a row of any status with x
Counterparts(x) ==
  {y \in Users :
     \E i \in Rows :
       \/ connections[i].userId = x /\ connections[i].connectedUserId = y
       \/ connections[i].connectedUserId = x /\ connections[i].userId = y}

\* C13: for every user X, Suggestions(X) is all users minus X minus every
\* user that is an endpoint of a row involving X, whatever the row's status.
C13_SuggestionsExact ==
  \A x \in Users : getUserSuggestions(x) = (Users \ {x}) \ Counterparts(x)

\* C13 witness: a user is kept out of the suggestions of another by a
\* rejected row and a third by a pending row
C13_Witness ==
  \E x, y, z \in Users, i, j \in Rows :
    /\ x # y /\ x # z /\ y # z
    /\ connections[i] = [userId |-> x, connectedUserId |-> y, status |-> "rejected"]
    /\ connections[j] = [userId |-> z, connectedUserId |-> x, status |-> "pending"]
    /\ getUserSuggestions(x) = Users \ {x, y, z}

\* C14: a connect request of a user for an existing recipient inserts
\* exactly one row (initiator, recipient, pending) and leaves every existing
\* row as it is, whatever rows the two users already share.
C14_ConnectInsertsOneRow ==
  [][\A p \in Procs :
       Arrives(p) =>
         \A tok \in Users, target \in Users :
           Connect(p, tok, target) =>
             /\ Len(connections') = Len(connections) + 1
             /\ \A i \in Rows : connections'[i] = connections[i]
             /\ connections'[Len(connections')] =
                  [userId |-> tok, connectedUserId |-> target, status |-> "pending"]
             /\ req'[p].code = 201]_vars

\* C14 witness: a pending row was inserted on top of an accepted row of the
\* same two users in the other direction
C14_Witness ==
  /\ Len(connections) = 2
  /\ connections[1].status = "accepted"
  /\ connections[2] = [userId |-> connections[1].connectedUserId,
                       connectedUserId |-> connections[1].userId,
                       status |-> "pending"]
  /\ connections[1].userId # connections[1].connectedUserId
  /\ \E p \in Procs : req[p].code = 201

\* C21: a connect request whose recipient id is no user row is answered 500
\* and inserts no connection row.
C21_UnknownRecipientIs500 ==
  [][\A p \in Procs :
       Arrives(p) =>
         \A tok \in Users, target \in UserIds \ Users :
           Connect(p, tok, target) =>
             /\ req'[p].pc = "idle" /\ req'[p].code = 500
             /\ connections' = connections]_vars

\* C21 witness: a connect request was answered 500 and the table is empty
C21_Witness ==
  /\ connections = << >>
  /\ \E p \in Procs : req[p].code = 500

\* C22: an Accept or Reject that is answered with an error (400, 403, 404)
\* leaves every connection row as it is; and with no other request in
\* flight, an Accept or Reject of the recipient on a row that is already
\* accepted or rejected is answered 400 and goes on to no write.
C22_ErrorsWriteNothing ==
  [][\A p \in Procs :
       Arrives(p) =>
         /\ (req'[p].pc = "idle" /\ req'[p].code \in {400, 403, 404}
               => connections' = connections)
         /\ ((\A q \in Procs : req[q].pc = "idle") =>
               \A id \in Rows :
                 connections[id].status # "pending" =>
                   LET tok == connections[id].connectedUserId
                   IN  AcceptGet(p, tok, id) \/ RejectGet(p, tok, id) =>
                         /\ req'[p].pc = "idle" /\ req'[p].code = 400
                         /\ connections' = connections)]_vars

\* C22 witness: with no request in flight, a request on an accepted row was
\* answered 400 and one on a row that does not exist 404
C22_Witness ==
  /\ \A q \in Procs : req[q].pc = "idle"
  /\ \E i \in Rows : connections[i].status = "accepted"
  /\ ~(\E i \in Rows : connections[i].status = "pending")
  /\ \E p, q \in Procs : req[p].code = 400 /\ req[q].code = 404

\* C23: for all users A and B, MutualConnections(A, B) is Colleagues(A)
\* intersected with Colleagues(B), and holds neither A nor B.
C23_MutualIsColleagueIntersection ==
  \A a, b \in Users :
    /\ getMutualConnections(a, b) = Colleagues(a) \cap Colleagues(b)
    /\ a \notin getMutualConnections(a, b)
    /\ b \notin getMutualConnections(a, b)

\* C24: the colleague relation is symmetric: B is in Colleagues(A) iff A is
\* in Colleagues(B), for all users A and B.
C24_ColleaguesSymmetric ==
  \A a, b \in Users : (b \in Colleagues(a)) <=> (a \in Colleagues(b))

\* C24 witness: a single accepted row makes its two users colleagues of
\* each other
C24_Witness ==
  \E a, b \in Users :
    /\ a # b
    /\ Cardinality({i \in Rows : connections[i].status = "accepted"}) = 1
    /\ b \in Colleagues(a) /\ a \in Colleagues(b)

\* users a and b share a connection row, in either direction
Requested(a, b) ==
  \E i \in Rows :
    {connections[i].userId, connections[i].connectedUserId} = {a, b}

\* C25: once a request between A and B has inserted its row, the row stays
\* whatever is accepted, rejected or requested later, and B is never again
\* in Suggestions(A) nor A in Suggestions(B); and no user is at once in
\* Suggestions(X) and in Colleagues(X).
C25_NeverSuggestedAgain ==
  /\ [](\A x \in Users : getUserSuggestions(x) \cap Colleagues(x) = {})
  /\ [](\A a, b \in Users :
          Requested(a, b) => b \notin getUserSuggestions(a) /\ a \notin getUserSuggestions(b))
  /\ [][\A a, b \in Users : Requested(a, b) => Requested(a, b)']_vars

\* C25 witness: one request of a user was rejected and another accepted:
\* both counterparts are out of its suggestions, one of them a colleague
C25_Witness ==
  \E a, b, c \in Users, i, j \in Rows :
    /\ a # b /\ a # c /\ b # c
    /\ connections[i] = [userId |-> a, connectedUserId |-> b, status |-> "rejected"]
    /\ connections[j] = [userId |-> a, connectedUserId |-> c, status |-> "accepted"]
    /\ b \notin getUserSuggestions(a) /\ c \notin getUserSuggestions(a)
    /\ c \in Colleagues(a)

\* ==================================================================
\* Properties of the like API (LikeSpec)
\* ==================================================================
LikePairs == Posts \X Users

Odd(n) == n % 2 = 1

\* C8: like requests of user u on post p handled one after another toggle:
\* the n-th request leaves a like row iff n is odd, and answers liked = true
\* iff n is odd.
C8_SerialToggle ==
  [][\A p \in Procs :
       LikeCount(p) =>
         LET k == <<req[p].id, req[p].user>>
         IN  ~likeHist[k].overlap =>
               /\ req'[p].liked = Odd(likeHist[k].n)
               /\ (likes'[k] > 0) = Odd(likeHist[k].n)]_vars

\* C8 witness: the third request of a pair, none of them overlapping, has
\* been answered liked = true
C8_Witness ==
  \E k \in LikePairs, p \in Procs :
    /\ likeHist[k].n = 3 /\ ~likeHist[k].overlap
    /\ LikesInFlight(k) = {}
    /\ req[p].liked = TRUE
    /\ likes[k] = 1

\* C9: the likes table holds at most one row per (post, user) pair, under
\* any interleaving of like requests.
C9_LikeUnique == \A k \in LikePairs : likes[k] <= 1

\* C9 witness: a like row exists while a second request of the same pair
\* has run into it
C9_Witness ==
  \E k \in LikePairs, p \in Procs :
    /\ likes[k] = 1
    /\ req[p].pc = "like_delete" /\ <<req[p].id, req[p].user>> = k

\* C10: of two like requests of one user for one post that is not yet liked,
\* handled concurrently, exactly one inserts; the other deletes the like,
\* and once both have completed no like row of the pair remains.
C10_ConcurrentLikesCancel ==
  \A k \in LikePairs :
    likeHist[k].n = 2 /\ likeHist[k].overlap /\ LikesInFlight(k) = {} =>
      likeHist[k].inserts = 1 /\ likes[k] = 0

\* C10 witness: two overlapping requests of a pair have both been answered,
\* one liked = true and one liked = false
C10_Witness ==
  \E k \in LikePairs :
    /\ likeHist[k].n = 2 /\ likeHist[k].overlap /\ LikesInFlight(k) = {}
    /\ \E p, q \in Procs : req[p].liked = TRUE /\ req[q].liked = FALSE

\* ==================================================================
\* Properties of the Doctor-only API (GateSpec)
\* ==================================================================
\* slot p takes a request for one of the Doctor-only endpoints with token tok
GatedRequest(p, tok) ==
  \/ \E categoryId \in Params(tok, CategoryIds \cup {NaN}) :
       \E title \in Params(tok, Texts), content \in Params(tok, Texts) :
         CreatePost(p, tok, categoryId, title, content)
  \/ \E file \in BOOLEAN : UploadDocument(p, tok, file)
  \/ GeneratePrescription(p, tok)

\* C15: a request to a token-protected endpoint with no token, or with a
\* token that verification refuses (invalid or expired), is answered 401 and
\* the handler behind the gate is not run.
C15_NoValidTokenIs401 ==
  [][\A p \in Procs :
       Arrives(p) =>
         \A tok \in {Missing, Bad} :
           GatedRequest(p, tok) =>
             /\ req'[p].pc = "idle" /\ req'[p].code = 401
             /\ posts' = posts /\ documents' = documents]_vars

\* C16: a request to create a post, upload a document or generate a
\* prescription with a valid token whose role is not Doctor is answered 403
\* and inserts no post or document row; every such request that is served,
\* and every row inserted, is of a Doctor.
C16_OnlyDoctorPasses ==
  [][\A p \in Procs :
       Arrives(p) =>
         /\ \A tok \in Users :
              roleOf(tok) # "Doctor" /\ GatedRequest(p, tok) =>
                /\ req'[p].pc = "idle" /\ req'[p].code = 403
                /\ posts' = posts /\ documents' = documents
         /\ (posts' # posts => roleOf(posts'[Len(posts')].authorId) = "Doctor")
         /\ (documents' # documents =>
               roleOf(documents'[Len(documents')].ownerId) = "Doctor")
         /\ (req'[p].code \in {200, 201} =>
               \E tok \in Users : roleOf(tok) = "Doctor" /\ GatedRequest(p, tok))]_vars

\* C16 witness: a Student was answered 403 while a Doctor has created a
\* post and uploaded a document
C16_Witness ==
  /\ \E p \in Procs :
       req[p].code = 403 /\ req[p].user \in Users /\ roleOf(req[p].user) = "Student"
  /\ PostsCreated > 0
  /\ Len(documents) > 0

\* ==================================================================
\* Properties of the signup API (SignupSpec)
\* ==================================================================
\* C17: no two user rows share a username, also when two signup requests
\* for one username both pass the existence check before either inserts.
C17_UsernameUnique ==
  \A i, j \in 1..Len(users) : i # j => users[i].username # users[j].username

\* C17 witness: a signup that had passed the existence check was refused by
\* the insert (500) after another signup inserted a row of the same username
C17_Witness ==
  /\ Len(users) > NumUsers
  /\ \E p \in Procs : req[p].code = 500

\* ==================================================================
\* Properties of the comment API (CommentSpec)
\* ==================================================================
\* C18: every comment with a parentId has a parent comment that is on the
\* same post as the comment itself.
C18_ParentOnSamePost ==
  \A i \in 1..Len(comments) :
    comments[i].parentId # NoParent =>
      /\ comments[i].parentId \in 1..Len(comments)
      /\ comments[comments[i].parentId].postId = comments[i].postId

\* ==================================================================
\* Properties of the post API (PostSpec)
\* ==================================================================
\* the post ids of a listing
Ids(list) == {list[i].id : i \in 1..Len(list)}

PostRows == 1..Len(posts)

\* a saved_posts row (u, id) exists
IsSavedBy(u, id) == \E r \in savedPosts : r.userId = u /\ r.postId = id

\* C19: for every category C, the listing with categoryId = C holds exactly
\* the posts whose category is C, each once; with categoryId absent or
\* "all" it holds every post.
C19_CategoryFilterExact ==
  \A u \in Users :
    /\ \A c \in CategoryIds :
         LET list == GetPosts(u, "none", << >>, c)
         IN  /\ Ids(list) = {id \in PostRows : posts[id].categoryId = c}
             /\ Len(list) = Cardinality(Ids(list))
    /\ \A c \in {NoParam, All} : Ids(GetPosts(u, "none", << >>, c)) = PostRows

\* C19 witness: a post was created in a category that held no post, and the
\* listing of that category is exactly that post, while the listing of all
\* categories holds more
C19_Witness ==
  \E c \in Categories, p \in Procs :
    /\ req[p].code = 201
    /\ Len(posts) = NumPosts + 1
    /\ posts[Len(posts)].categoryId = c
    /\ Ids(GetPosts(1, "none", << >>, c)) = {Len(posts)}
    /\ Ids(GetPosts(1, "none", << >>, All)) # {Len(posts)}

\* C20: for a user u, every post of a listing has saved = true iff a
\* saved_posts row (u, post) exists, and with filter = saved the listing
\* holds exactly the posts saved by u among those that the same category
\* and search parameters list without the filter.
C20_SavedOverlayExact ==
  \A u \in Users, filter \in Filters, searchTerm \in Terms, c \in CategoryParams :
    LET list == GetPosts(u, filter, searchTerm, c)
    IN  /\ \A i \in 1..Len(list) : list[i].saved = IsSavedBy(u, list[i].id)
        /\ filter = "saved" =>
              Ids(list) = {id \in Ids(GetPosts(u, "none", searchTerm, c)) : IsSavedBy(u, id)}
        /\ filter # "saved" =>
              Ids(list) = {id \in PostRows : Conditions(posts[id], searchTerm, c)}

\* C20 witness: a user has saved one post and another user a different one;
\* the saved listing of the first holds its post only, and a search term
\* that the post does not match empties it
C20_Witness ==
  \E u, v \in Users, a, b \in PostRows :
    /\ u # v /\ a # b
    /\ IsSavedBy(u, a) /\ ~IsSavedBy(u, b) /\ IsSavedBy(v, b)
    /\ Ids(GetPosts(u, "saved", << >>, NoParam)) = {a}
    /\ \E searchTerm \in Terms : GetPosts(u, "saved", searchTerm, NoParam) = << >>
    /\ \E i \in 1..Len(GetPosts(u, "none", << >>, All)) :
         ~GetPosts(u, "none", << >>, All)[i].saved

\* C26: under any interleaving of save and unsave requests the saved_posts
\* table holds at most one row per (user, post) pair.
C26_SavedPostUnique ==
  \A u \in Users, id \in PostRows : Cardinality(ExistingSavedPosts(id, u)) <= 1

\* ==================================================================
\* Properties of the document API (ShareSpec)
\* ==================================================================
\* the rows of document_sharing for (documentId, userId)
SharesOf(documentId, userId) ==
  {i \in 1..Len(documentSharing) :
     documentSharing[i].documentId = documentId /\ documentSharing[i].userId = userId}

\* C27: after any sequence of share requests, whatever their userIds
\* arrays, document_sharing holds at most one row per (document, user)
\* pair.
C27_ShareUnique ==
  \A d \in 1..Len(documents), u \in Users : Cardinality(SharesOf(d, u)) <= 1

\* C30: a request without a valid bearer token to an endpoint that writes
\* (here: document upload and document sharing) is refused by
\* authenticateJWT and leaves the tables as they are.
C30_WritesNeedToken ==
  [][\A p \in Procs :
       Arrives(p) =>
         \A tok \in {Missing, Bad} :
           (\/ \E file \in BOOLEAN : UploadDocument(p, tok, file)
            \/ \E documentId \in DocumentIds, userIds \in UserIdArrays :
                 ShareFind(p, tok, documentId, userIds))
           => /\ req'[p].pc = "idle"
              /\ req'[p].code = authenticateJWT(tok)
              /\ documents' = documents
              /\ documentSharing' = documentSharing]_vars

\* ==================================================================
\* Properties of the profile API (ProfileSpec)
\* ==================================================================
\* C28: a profile update with any body changes only the row of the token's
\* user, never its id, username, password or role, and changes nothing when
\* the body holds no key of updateUserProfileSchema.
C28_ProfileUpdateFrame ==
  [][\A p \in Procs :
       Arrives(p) =>
         \A tok \in Users, body \in Bodies :
           UpdateProfile(p, tok, body) =>
             /\ Len(users') = Len(users)
             /\ \A u \in 1..Len(users) : u # tok => users'[u] = users[u]
             /\ users'[tok].username = users[tok].username
             /\ users'[tok].password = users[tok].password
             /\ users'[tok].role = users[tok].role
             /\ (DOMAIN body \cap ProfileFields = {} => users' = users)]_vars

\* C28 witness: a user has changed its name with an update answered 200,
\* and no other row has changed
C28_Witness ==
  \E u \in Users, p \in Procs :
    /\ req[p].code = 200
    /\ users[u] = [UserRow(u, roleOf(u)) EXCEPT !.name = "n1"]
    /\ \A v \in Users \ {u} : users[v] = UserRow(v, roleOf(v))

\* ==================================================================
\* Properties of the response bodies (ConnSpec)
\* ==================================================================
\* C29: no user object of a response body holds the password: neither in
\* the user list, the connection requests, the connections nor the mutual
\* connections.
C29_NoPasswordInResponses ==
  \A x, y \in Users :
    /\ \A i \in 1..Len(GetUsers) : "password" \notin DOMAIN GetUsers[i]
    /\ \A i \in 1..Len(GetConnectionRequests(x)) :
         "password" \notin DOMAIN GetConnectionRequests(x)[i]
    /\ \A i \in 1..Len(GetConnections(x)) :
         /\ "password" \notin DOMAIN GetConnections(x)[i].user
         /\ "password" \notin DOMAIN GetConnections(x)[i].connectedUser
    /\ \A u \in GetMutualConnections(x, y) : "password" \notin DOMAIN u

====
